---- MODULE Spec2Model ----
(***************************************************************************)
(* Model of the streaming connection manager, WebsocketClient, of          *)
(* src/src/spot-client.ts (lines 203-615), together with the WsStore it    *)
(* keeps its per-key records in.                                           *)
(*                                                                         *)
(* One action per callback of the single-threaded event loop: the public   *)
(* calls subscribe / unsubscribe / close, the continuation of connect      *)
(* after its await, the reconnect setTimeout, the ping setInterval, the    *)
(* pong setTimeout, and the four transport events.                         *)
(***************************************************************************)
EXTENDS Integers, Sequences, FiniteSets, TLC

\* ------------------------------------------------------------------ bounds
MaxSockets == 2      \* transports created in one behaviour
MaxPending == 2      \* cap of the counters of pending timers / suspended connects
NumTopics  == 1      \* non-empty topic names the application uses

\* --------------------------------------------------------------- constants
READY_STATE_INITIAL      == 0
READY_STATE_CONNECTING   == 1
READY_STATE_CONNECTED    == 2
READY_STATE_CLOSING      == 3
READY_STATE_RECONNECTING == 4

defaultWsKey == "inverse"

KeyOrder == <<"inverse", "public", "private">>
Keys     == {KeyOrder[i] : i \in 1..Len(KeyOrder)}

TopicNames == <<"orderBook.BTC", "wallet", "trade.BTC", "position">>
Topics     == {""} \cup {TopicNames[i] : i \in 1..NumTopics}

\* readyState of a transport (isomorphic-ws WebSocket)
WS_CONNECTING == "CONNECTING"
WS_OPEN       == "OPEN"
WS_CLOSING    == "CLOSING"
WS_CLOSED     == "CLOSED"

NoArg == {}          \* lastOp.arg of an action that takes no topics

VARIABLES
  linear,            \* options.linear
  records,           \* keys that have a record in the store (WsStore.getKeys)
  connState,         \* connection state per key
  topics,            \* subscribed topic set per key
  ws,                \* socket stored per key: index into socks, 0 = undefined
  socks,             \* every transport created so far: [key, rs, forced, opened]
  activePingTimer,   \* per key: the record's handle of a live setInterval
  leakedPing,        \* live ping intervals no record's handle refers to
  leakedPong,        \* pending pong timeouts no record's handle refers to
  activePongTimer,   \* per key: "none" | "pending" | "fired"
  pongSock,          \* per key: the socket the last ping of that key was sent to
  reconnectTimers,   \* pending setTimeout callbacks of reconnectWithDelay
  pendingConnect,    \* per key: connect() calls suspended at await getAuthParams
  sent,              \* frames written to a transport by the last action
  failedSends,       \* sends of the last action that hit a socket that is not open
  thrown,            \* frames whose send failure left tryWsSend as an exception in the last step
  uncaught,          \* the exception that left the last handler: "none" | "SyntaxError" | "TypeError"
  emitted,           \* events emitted by the last action
  connectResult,     \* outcome of the connect() guard in the last action
  closeCalled,       \* keys on which close() has been called
  closedLive,        \* keys that are Closing by a close() called in Connected or Connecting
  preState,          \* connection state of lastOp.key before the last action
  removed,           \* topics the last unsubscribe took out of the store
  lastOp             \* the last action: [name, key, arg, sock]

vars == <<linear, records, connState, topics, ws, socks, activePingTimer,
          leakedPing, leakedPong, activePongTimer, pongSock, reconnectTimers,
          pendingConnect, sent, failedSends, thrown, uncaught, emitted, connectResult,
          closeCalled, closedLive, preState, removed, lastOp>>

\* ------------------------------------------------------------------ helpers
Op(name, key, arg, sock) ==
  [name |-> name, key |-> key, arg |-> arg, sock |-> sock, msg |-> 0]

\* the last action when it is the delivery of frame Messages[m]
MsgOp(key, sock, m) == [Op("onWsMessage", key, NoArg, sock) EXCEPT !.msg = m]

Frame(op, args, sock) == [op |-> op, args |-> args, sock |-> sock]

\* ------------------------------------------------- inbound frames (parsed)
\* success: "absent" | "true" | "false"; reqOp: request.op or "none";
\* ret_msg; topic: "" when the frame has no topic; pong: a bare pong marker;
\* parse: "object" when the text is a JSON object, "invalid" when it is not
\* JSON, "primitive" when it is JSON null, a number or a string.
Msg(success, reqOp, ret_msg, topic, pong) ==
  [success |-> success, reqOp |-> reqOp, ret_msg |-> ret_msg, topic |-> topic,
   pong |-> pong, parse |-> "object"]

\* a frame whose text is not a JSON object
Malformed(kind) == [Msg("absent", "none", "", "", FALSE) EXCEPT !.parse = kind]

Messages == <<
  Msg("true",   "ping",      "pong", "",       FALSE),   \* 1 heartbeat reply
  Msg("false",  "ping",      "pong", "",       FALSE),   \* 2 failed ping echo
  Msg("true",   "subscribe", "",     "",       FALSE),   \* 3 subscribe acknowledgement
  Msg("false",  "subscribe", "",     "",       FALSE),   \* 4 failed subscribe / auth
  Msg("true",   "none",      "",     "",       TRUE),    \* 5 bare pong marker, with success
  Msg("absent", "none",      "",     "wallet", FALSE),   \* 6 data update
  Msg("absent", "none",      "",     "",       FALSE),   \* 7 neither success nor topic
  Msg("true",   "subscribe", "",     "wallet", FALSE),   \* 8 both success and topic
  Msg("absent", "none",      "",     "",       TRUE),    \* 9 bare pong marker, no success
  Malformed("invalid"),                                  \* 10 text that is not JSON
  Malformed("primitive")                                 \* 11 JSON null
>>

Event(name, msg) == [name |-> name, msg |-> msg]

\* ------------------------------------------------------------ the WsStore
getKeys == records

getTopics(k) == topics[k]

getConnectionState(k) == connState[k]

isConnectionState(k, state) == getConnectionState(k) = state

getWs(k) == ws[k]

isWsOpen(k) == getWs(k) # 0 /\ socks[getWs(k)].rs = WS_OPEN

addTopic(tp, k, t) == [tp EXCEPT ![k] = @ \cup {t}]

deleteTopic(tp, k, t) == [tp EXCEPT ![k] = @ \ {t}]

setConnectionState(cs, k, state) == [cs EXCEPT ![k] = state]

setWs(w, k, s) == [w EXCEPT ![k] = s]

\* --------------------------------------------------------- key routing
getLinearWsKeyForTopic(t) == IF t = "" THEN "public" ELSE "private"

isInverse == ~linear

getWsKeyForTopic(t) == IF isInverse THEN defaultWsKey ELSE getLinearWsKeyForTopic(t)

\* ------------------------------------------------------------- sending
\* tryWsSend: getWs(wsKey)?.send(msg) inside try/catch. The frame is written
\* only when the stored socket is open; a send on a socket that is not open
\* fails inside the guard; no socket at all is skipped by the ?. operator.
tryWsSend(k, frameOp, args, sk) ==
  IF ws[k] = 0 THEN << >>
  ELSE IF sk[ws[k]].rs = WS_OPEN THEN << Frame(frameOp, args, ws[k]) >>
  ELSE << >>

tryWsSendFailed(k, frameOp, args, sk) ==
  IF ws[k] # 0 /\ sk[ws[k]].rs # WS_OPEN THEN << Frame(frameOp, args, ws[k]) >> ELSE << >>

\* mutant: tryWsSend has no catch block, the exception of a failed send
\* leaves it
tryWsSendRethrows(failed) == failed

\* tryWsSend's catch block: of the sends that failed, the ones whose
\* exception leaves tryWsSend; the block logs and returns.
tryWsSendThrown(failed) == << >>

\* mutant: the frame does not carry the topics it was given
requestSubscribeTopicsNoArgs(k, tps, sk) == tryWsSend(k, "subscribe", {}, sk)

requestSubscribeTopics(k, tps, sk) == tryWsSend(k, "subscribe", tps, sk)

requestUnsubscribeTopics(k, tps, sk) == tryWsSend(k, "unsubscribe", tps, sk)

\* what the server is asked to deliver once it has read frame f: a subscribe
\* frame adds its args, an unsubscribe frame takes them away
ApplyFrame(req, f) ==
  IF f.op = "subscribe" THEN req \cup f.args
  ELSE IF f.op = "unsubscribe" THEN req \ f.args
  ELSE req

\* the frames of one action, applied in the order they were written, each to
\* the key of the transport it was written to
RECURSIVE ApplyFrames(_, _, _)
ApplyFrames(req, frames, sk) ==
  IF frames = << >> THEN req
  ELSE LET f == Head(frames)
           k == sk[f.sock].key
       IN ApplyFrames([req EXCEPT ![k] = ApplyFrame(req[k], f)], Tail(frames), sk)

\* wsStore.getKeys().forEach(wsKey => request...Topics(wsKey, getTopics(wsKey)))
RECURSIVE ForEachKeySend(_, _, _, _, _)
ForEachKeySend(i, frameOp, recs, tp, sk) ==
  IF i > Len(KeyOrder) THEN << >>
  ELSE (IF KeyOrder[i] \in recs
          THEN (IF frameOp = "subscribe"
                  THEN requestSubscribeTopics(KeyOrder[i], tp[KeyOrder[i]], sk)
                  ELSE requestUnsubscribeTopics(KeyOrder[i], tp[KeyOrder[i]], sk))
          ELSE << >>)
       \o ForEachKeySend(i + 1, frameOp, recs, tp, sk)

RECURSIVE ForEachKeyFailed(_, _, _, _, _)
ForEachKeyFailed(i, frameOp, recs, tp, sk) ==
  IF i > Len(KeyOrder) THEN << >>
  ELSE (IF KeyOrder[i] \in recs
          THEN tryWsSendFailed(KeyOrder[i], frameOp, tp[KeyOrder[i]], sk)
          ELSE << >>)
       \o ForEachKeyFailed(i + 1, frameOp, recs, tp, sk)

\* ws.close(): starts the closing handshake of a connecting or open socket,
\* and does nothing on one that is closing or closed.
wsClose(sk, s, byPong) ==
  IF s = 0 THEN sk
  ELSE IF sk[s].rs \in {WS_CONNECTING, WS_OPEN}
         THEN [sk EXCEPT ![s].rs = WS_CLOSING, ![s].forced = byPong]
         ELSE sk

\* ------------------------------------------------------------- timers
\* mutant: the ping interval is not cancelled
clearPingTimerKept(apt, k) == apt

clearPingTimer(apt, k) == [apt EXCEPT ![k] = FALSE]

\* mutant: the pong timeout is not cancelled
clearPongTimerKept(apo, k) == apo

clearPongTimer(apo, k) == [apo EXCEPT ![k] = "none"]

\* mutant: the state is left as it was
reconnectStateKept(cs, k) == cs

\* reconnectWithDelay, the state part: Reconnecting unless Connecting
reconnectState(cs, k) ==
  IF cs[k] # READY_STATE_CONNECTING
    THEN setConnectionState(cs, k, READY_STATE_RECONNECTING)
    ELSE cs

\* mutant: two callbacks are scheduled for one failure
reconnectSchedulesTwice == 1 + 1

\* reconnectWithDelay, the number of setTimeout callbacks it schedules
reconnectSchedules == 1

\* ------------------------------------------------------------- connect
\* mutant: the guard without the check for an attempt already active
connectGuardNoConnectingCheck(k) ==
  IF isWsOpen(k) THEN "refusedOpen" ELSE "started"

\* the guard of connect(): what the synchronous part decides
connectGuard(k) ==
  IF isWsOpen(k) THEN "refusedOpen"
  ELSE IF isConnectionState(k, READY_STATE_CONNECTING) THEN "refusedConnecting"
  ELSE "started"

\* mutant: a retried connect() also sets Connecting from Reconnecting
connectStateFromReconnecting(cs, k) ==
  IF cs[k] \in {READY_STATE_INITIAL, READY_STATE_RECONNECTING}
    THEN setConnectionState(cs, k, READY_STATE_CONNECTING)
    ELSE cs

\* the state connect() leaves before it suspends at the await
connectState(cs, k) ==
  IF cs[k] = READY_STATE_INITIAL
    THEN setConnectionState(cs, k, READY_STATE_CONNECTING)
    ELSE cs

\* isWsPong of util/requestUtils, which the websocket client does not import
isWsPongUtil(m) ==
  \/ m.pong
  \/ /\ m.reqOp # "none"
     /\ m.reqOp = "ping"
     /\ m.ret_msg = "pong"
     /\ m.success = "true"

\* mutant: any echo of a ping request counts as a pong
isWsPongAnyPingEcho(m) == m.reqOp = "ping"

\* isWsPong of the websocket client
isWsPong(m) ==
  /\ m.reqOp # "none"
  /\ m.reqOp = "ping"
  /\ m.ret_msg = "pong"
  /\ m.success = "true"

\* ---------------------------------------------------------------- Init
Init ==
  /\ linear \in BOOLEAN
  /\ records = {defaultWsKey}
  /\ connState = [k \in Keys |->
                    IF k = defaultWsKey THEN READY_STATE_CONNECTING ELSE READY_STATE_INITIAL]
  /\ topics = [k \in Keys |-> {}]
  /\ ws = [k \in Keys |-> 0]
  /\ socks = << >>
  /\ activePingTimer = [k \in Keys |-> FALSE]
  /\ leakedPing = 0
  /\ leakedPong = 0
  /\ activePongTimer = [k \in Keys |-> "none"]
  /\ pongSock = [k \in Keys |-> 0]
  /\ reconnectTimers = 0
  /\ pendingConnect = [k \in Keys |-> IF k = defaultWsKey THEN 1 ELSE 0]
  /\ sent = << >>
  /\ failedSends = << >>
  /\ thrown = << >>
  /\ uncaught = "none"
  /\ emitted = << >>
  /\ connectResult = "started"
  /\ closeCalled = {}
  /\ closedLive = {}
  /\ preState = READY_STATE_INITIAL
  /\ removed = {}
  /\ lastOp = Op("constructor", defaultWsKey, NoArg, 0)

\* ------------------------------------------------------------- actions
\* subscribe(wsTopics): store every topic under the key it resolves to, then,
\* if the default key is Connected, send each key's whole topic set.
RECURSIVE ForEachAddTopic(_, _)
ForEachAddTopic(tp, T) ==
  IF T = {} THEN tp
  ELSE LET t == CHOOSE x \in T : TRUE
       IN ForEachAddTopic(addTopic(tp, getWsKeyForTopic(t), t), T \ {t})

subscribeTopics(tp, T) == ForEachAddTopic(tp, T)

\* the condition under which subscribe / unsubscribe send frames at once
sendsNow == isConnectionState(defaultWsKey, READY_STATE_CONNECTED)

Subscribe(T) ==
  LET tp   == subscribeTopics(topics, T)
      recs == records \cup {getWsKeyForTopic(t) : t \in T}
  IN /\ topics' = tp
     /\ records' = recs
     /\ sent' = IF sendsNow THEN ForEachKeySend(1, "subscribe", recs, tp, socks) ELSE << >>
     /\ failedSends' = IF sendsNow THEN ForEachKeyFailed(1, "subscribe", recs, tp, socks) ELSE << >>
     /\ thrown' = tryWsSendThrown(failedSends')
     /\ uncaught' = "none"
     /\ emitted' = << >>
     /\ connectResult' = "none"
     /\ preState' = connState[defaultWsKey]
     /\ removed' = {}
     /\ UNCHANGED <<closeCalled, closedLive, leakedPong>>
     /\ lastOp' = Op("subscribe", defaultWsKey, T, 0)
     /\ UNCHANGED <<linear, connState, ws, socks, activePingTimer, leakedPing,
                    activePongTimer, pongSock, reconnectTimers, pendingConnect>>

\* unsubscribe(wsTopics)
RECURSIVE ForEachDeleteTopic(_, _)
ForEachDeleteTopic(tp, T) ==
  IF T = {} THEN tp
  ELSE LET t == CHOOSE x \in T : TRUE
       IN ForEachDeleteTopic(deleteTopic(tp, getWsKeyForTopic(t), t), T \ {t})

\* mutant: the store is only updated while the default key is Connected
unsubscribeTopicsOnlyConnected(tp, T) ==
  IF sendsNow THEN ForEachDeleteTopic(tp, T) ELSE tp

unsubscribeTopics(tp, T) == ForEachDeleteTopic(tp, T)

Unsubscribe(T) ==
  LET tp   == unsubscribeTopics(topics, T)
      recs == records \cup {getWsKeyForTopic(t) : t \in T}
  IN /\ topics' = tp
     /\ records' = recs
     /\ sent' = IF sendsNow THEN ForEachKeySend(1, "unsubscribe", recs, tp, socks) ELSE << >>
     /\ failedSends' = IF sendsNow THEN ForEachKeyFailed(1, "unsubscribe", recs, tp, socks) ELSE << >>
     /\ thrown' = tryWsSendThrown(failedSends')
     /\ uncaught' = "none"
     /\ emitted' = << >>
     /\ connectResult' = "none"
     /\ preState' = connState[defaultWsKey]
     /\ removed' = {t \in T : t \in topics[getWsKeyForTopic(t)]}
     /\ UNCHANGED <<closeCalled, closedLive, leakedPong>>
     /\ lastOp' = Op("unsubscribe", defaultWsKey, T, 0)
     /\ UNCHANGED <<linear, connState, ws, socks, activePingTimer, leakedPing,
                    activePongTimer, pongSock, reconnectTimers, pendingConnect>>

\* mutant: close also forgets the topics of the key
CloseClearsTopics(k) ==
  /\ connState' = setConnectionState(connState, k, READY_STATE_CLOSING)
  /\ records' = records \cup {k}
  /\ activePingTimer' = clearPingTimer(activePingTimer, k)
  /\ activePongTimer' = clearPongTimer(activePongTimer, k)
  /\ socks' = wsClose(socks, getWs(k), FALSE)
  /\ topics' = [topics EXCEPT ![k] = {}]
  /\ sent' = << >>
  /\ failedSends' = << >>
  /\ thrown' = << >>
  /\ uncaught' = "none"
  /\ emitted' = << >>
  /\ connectResult' = "none"
  /\ preState' = connState[k]
  /\ removed' = {}
  /\ closeCalled' = closeCalled \cup {k}
  /\ UNCHANGED leakedPong
  /\ closedLive' = IF connState[k] \in {READY_STATE_CONNECTED, READY_STATE_CONNECTING}
                     THEN closedLive \cup {k} ELSE closedLive
  /\ lastOp' = Op("close", k, NoArg, getWs(k))
  /\ UNCHANGED <<linear, ws, leakedPing, pongSock, reconnectTimers, pendingConnect>>

\* close(wsKey): Closing, clear both timers, ask the stored socket to close
Close(k) ==
  /\ connState' = setConnectionState(connState, k, READY_STATE_CLOSING)
  /\ records' = records \cup {k}
  /\ activePingTimer' = clearPingTimer(activePingTimer, k)
  /\ activePongTimer' = clearPongTimer(activePongTimer, k)
  /\ socks' = wsClose(socks, getWs(k), FALSE)
  /\ sent' = << >>
  /\ failedSends' = << >>
  /\ thrown' = << >>
  /\ uncaught' = "none"
  /\ emitted' = << >>
  /\ connectResult' = "none"
  /\ preState' = connState[k]
  /\ removed' = {}
  /\ closeCalled' = closeCalled \cup {k}
  /\ UNCHANGED leakedPong
  /\ closedLive' = IF connState[k] \in {READY_STATE_CONNECTED, READY_STATE_CONNECTING}
                     THEN closedLive \cup {k} ELSE closedLive
  /\ lastOp' = Op("close", k, NoArg, getWs(k))
  /\ UNCHANGED <<linear, topics, ws, leakedPing, pongSock, reconnectTimers, pendingConnect>>

\* the callback of reconnectWithDelay's setTimeout: this.connect(), which is
\* connect(defaultWsKey), up to its await
ReconnectTimeout ==
  LET k == defaultWsKey
      r == connectGuard(k)
  IN /\ reconnectTimers > 0
     /\ reconnectTimers' = reconnectTimers - 1
     /\ connectResult' = r
     /\ IF r = "started"
          THEN /\ pendingConnect[k] < MaxPending
               /\ connState' = connectState(connState, k)
               /\ pendingConnect' = [pendingConnect EXCEPT ![k] = @ + 1]
               /\ records' = records \cup {k}
          ELSE UNCHANGED <<connState, pendingConnect, records>>
     /\ sent' = << >>
     /\ failedSends' = << >>
     /\ thrown' = << >>
     /\ uncaught' = "none"
     /\ emitted' = << >>
     /\ preState' = connState[k]
     /\ removed' = {}
     /\ UNCHANGED <<closeCalled, closedLive, leakedPong>>
     /\ lastOp' = Op("reconnectTimeout", k, NoArg, 0)
     /\ UNCHANGED <<linear, topics, ws, socks, activePingTimer, leakedPing,
                    activePongTimer, pongSock>>

\* connect(wsKey) after the await, no exception: connectToWsUrl and setWs
ConnectOpenTransport(k) ==
  /\ pendingConnect[k] > 0
  /\ Len(socks) < MaxSockets
  /\ pendingConnect' = [pendingConnect EXCEPT ![k] = @ - 1]
  /\ socks' = Append(socks, [key |-> k, rs |-> WS_CONNECTING, forced |-> FALSE, opened |-> FALSE])
  /\ ws' = setWs(ws, k, Len(socks) + 1)
  /\ records' = records \cup {k}
  /\ sent' = << >>
  /\ failedSends' = << >>
  /\ thrown' = << >>
  /\ uncaught' = "none"
  /\ emitted' = << >>
  /\ connectResult' = "none"
  /\ preState' = connState[k]
  /\ removed' = {}
  /\ UNCHANGED <<closeCalled, closedLive, leakedPong>>
  /\ lastOp' = Op("connectOpenTransport", k, NoArg, Len(socks) + 1)
  /\ UNCHANGED <<linear, connState, topics, activePingTimer, leakedPing,
                 activePongTimer, pongSock, reconnectTimers>>

\* connect(wsKey) after the await, getAuthParams or new WebSocket threw:
\* the catch block calls reconnectWithDelay(wsKey)
ConnectThrows(k) ==
  /\ pendingConnect[k] > 0
  /\ reconnectTimers + reconnectSchedules <= MaxPending
  /\ pendingConnect' = [pendingConnect EXCEPT ![k] = @ - 1]
  /\ activePingTimer' = clearPingTimer(activePingTimer, k)
  /\ activePongTimer' = clearPongTimer(activePongTimer, k)
  /\ connState' = reconnectState(connState, k)
  /\ records' = IF connState[k] # READY_STATE_CONNECTING THEN records \cup {k} ELSE records
  /\ reconnectTimers' = reconnectTimers + reconnectSchedules
  /\ sent' = << >>
  /\ failedSends' = << >>
  /\ thrown' = << >>
  /\ uncaught' = "none"
  /\ emitted' = << >>
  /\ connectResult' = "none"
  /\ preState' = connState[k]
  /\ removed' = {}
  /\ UNCHANGED <<closeCalled, leakedPong>>
  /\ closedLive' = closedLive \ {k}
  /\ lastOp' = Op("connectThrows", k, NoArg, 0)
  /\ UNCHANGED <<linear, topics, ws, socks, leakedPing, pongSock>>

\* a tick of a ping interval: ping(), which is ping(defaultWsKey)
PingTick ==
  LET k   == defaultWsKey
      apo == clearPongTimer(activePongTimer, k)
  IN
  /\ leakedPing > 0 \/ \E j \in Keys : activePingTimer[j]
  /\ IF apo[k] = "pending"
       THEN /\ leakedPong < MaxPending
            /\ leakedPong' = leakedPong + 1
       ELSE leakedPong' = leakedPong
  /\ activePongTimer' = [apo EXCEPT ![k] = "pending"]
  /\ pongSock' = [pongSock EXCEPT ![k] = getWs(k)]
  /\ records' = records \cup {k}
  /\ sent' = tryWsSend(k, "ping", {}, socks)
  /\ failedSends' = tryWsSendFailed(k, "ping", {}, socks)
  /\ thrown' = tryWsSendThrown(failedSends')
  /\ uncaught' = "none"
  /\ emitted' = << >>
  /\ connectResult' = "none"
  /\ preState' = connState[k]
  /\ removed' = {}
  /\ UNCHANGED <<closeCalled, closedLive>>
  /\ lastOp' = Op("ping", k, NoArg, getWs(k))
  /\ UNCHANGED <<linear, connState, topics, ws, socks, activePingTimer, leakedPing,
                 reconnectTimers, pendingConnect>>

\* mutant: the pong timeout does not close the socket
PongTimeoutNoClose(k) ==
  /\ activePongTimer[k] = "pending"
  /\ activePongTimer' = [activePongTimer EXCEPT ![k] = "fired"]
  /\ socks' = socks
  /\ sent' = << >>
  /\ failedSends' = << >>
  /\ thrown' = << >>
  /\ uncaught' = "none"
  /\ emitted' = << >>
  /\ connectResult' = "none"
  /\ preState' = connState[k]
  /\ removed' = {}
  /\ UNCHANGED <<closeCalled, closedLive, leakedPong>>
  /\ lastOp' = Op("pongTimeout", k, NoArg, getWs(k))
  /\ UNCHANGED <<linear, records, connState, topics, ws, activePingTimer, leakedPing,
                 pongSock, reconnectTimers, pendingConnect>>

\* the pong setTimeout of key k fires: getWs(wsKey)?.close()
PongTimeout(k) ==
  /\ activePongTimer[k] = "pending"
  /\ activePongTimer' = [activePongTimer EXCEPT ![k] = "fired"]
  /\ socks' = wsClose(socks, getWs(k), TRUE)
  /\ sent' = << >>
  /\ failedSends' = << >>
  /\ thrown' = << >>
  /\ uncaught' = "none"
  /\ emitted' = << >>
  /\ connectResult' = "none"
  /\ preState' = connState[k]
  /\ removed' = {}
  /\ UNCHANGED <<closeCalled, closedLive, leakedPong>>
  /\ lastOp' = Op("pongTimeout", k, NoArg, getWs(k))
  /\ UNCHANGED <<linear, records, connState, topics, ws, activePingTimer, leakedPing,
                 pongSock, reconnectTimers, pendingConnect>>

\* the events onWsOpen emits, from the state it finds
openEvents(st) ==
  IF st = READY_STATE_CONNECTING THEN << Event("open", 0) >>
  ELSE IF st = READY_STATE_RECONNECTING THEN << Event("reconnected", 0) >>
  ELSE << >>

\* transport s opens: onWsOpen(event, wsKey)
OnWsOpen(s) ==
  LET k    == socks[s].key
      sk   == [socks EXCEPT ![s].rs = WS_OPEN, ![s].opened = TRUE]
      recs == records \cup {k}
  IN /\ socks[s].rs = WS_CONNECTING
     /\ socks' = sk
     /\ emitted' = openEvents(connState[k])
     /\ connState' = setConnectionState(connState, k, READY_STATE_CONNECTED)
     /\ records' = recs
     /\ sent' = ForEachKeySend(1, "subscribe", recs, topics, sk)
     /\ failedSends' = ForEachKeyFailed(1, "subscribe", recs, topics, sk)
     /\ thrown' = tryWsSendThrown(failedSends')
     /\ uncaught' = "none"
     /\ IF activePingTimer[k]
          THEN /\ leakedPing < MaxPending
               /\ leakedPing' = leakedPing + 1
          ELSE leakedPing' = leakedPing
     /\ activePingTimer' = [activePingTimer EXCEPT ![k] = TRUE]
     /\ connectResult' = "none"
     /\ preState' = connState[k]
     /\ removed' = {}
     /\ UNCHANGED <<closeCalled, leakedPong>>
     /\ closedLive' = closedLive \ {k}
     /\ lastOp' = Op("onWsOpen", k, NoArg, s)
     /\ UNCHANGED <<linear, topics, ws, activePongTimer, pongSock, reconnectTimers,
                    pendingConnect>>

\* transport s emits close: onWsClose(event, wsKey)
OnWsClose(s) ==
  LET k == socks[s].key IN
  /\ socks[s].rs # WS_CLOSED
  /\ socks' = [socks EXCEPT ![s].rs = WS_CLOSED]
  /\ IF getConnectionState(k) # READY_STATE_CLOSING
       THEN /\ reconnectTimers + reconnectSchedules <= MaxPending
            /\ activePingTimer' = clearPingTimer(activePingTimer, k)
            /\ activePongTimer' = clearPongTimer(activePongTimer, k)
            /\ connState' = reconnectState(connState, k)
            /\ reconnectTimers' = reconnectTimers + reconnectSchedules
            /\ emitted' = << Event("reconnect", 0) >>
       ELSE /\ connState' = setConnectionState(connState, k, READY_STATE_INITIAL)
            /\ emitted' = << Event("close", 0) >>
            /\ UNCHANGED <<activePingTimer, activePongTimer, reconnectTimers>>
  /\ sent' = << >>
  /\ failedSends' = << >>
  /\ thrown' = << >>
  /\ uncaught' = "none"
  /\ connectResult' = "none"
  /\ preState' = connState[k]
  /\ removed' = {}
  /\ UNCHANGED <<closeCalled, leakedPong>>
  /\ closedLive' = closedLive \ {k}
  /\ lastOp' = Op("onWsClose", k, NoArg, s)
  /\ UNCHANGED <<linear, records, topics, ws, leakedPing, pongSock, pendingConnect>>

\* transport s emits error: onWsError(err, wsKey)
\* mutant: the error is surfaced in every state
errorEventsAlways(k) == << Event("error", 0) >>

\* the events onWsError emits for key k
errorEvents(k) ==
  IF isConnectionState(k, READY_STATE_CONNECTED) THEN << Event("error", 0) >> ELSE << >>

OnWsError(s) ==
  LET k == socks[s].key IN
  /\ socks[s].rs # WS_CLOSED
  /\ emitted' = errorEvents(k)
  /\ sent' = << >>
  /\ failedSends' = << >>
  /\ thrown' = << >>
  /\ uncaught' = "none"
  /\ connectResult' = "none"
  /\ preState' = connState[k]
  /\ removed' = {}
  /\ UNCHANGED <<closeCalled, closedLive, leakedPong>>
  /\ lastOp' = Op("onWsError", k, NoArg, s)
  /\ UNCHANGED <<linear, records, connState, topics, ws, socks, activePingTimer,
                 leakedPing, activePongTimer, pongSock, reconnectTimers, pendingConnect>>

\* the exception JSON.parse(event.data) or the test 'success' in msg raises
onWsMessageThrows(msg) ==
  IF msg.parse = "invalid" THEN "SyntaxError"
  ELSE IF msg.parse = "primitive" THEN "TypeError"
  ELSE "none"

\* transport s delivers frame Messages[m]: onWsMessage(event, wsKey)
OnWsMessage(s, m) ==
  LET k   == socks[s].key
      msg == Messages[m]
  IN /\ socks[s].rs \in {WS_OPEN, WS_CLOSING}
     /\ socks[s].opened
     /\ uncaught' = onWsMessageThrows(msg)
     /\ IF onWsMessageThrows(msg) # "none"
          THEN /\ emitted' = << >>
               /\ UNCHANGED activePongTimer
          ELSE IF msg.success # "absent"
                 THEN IF isWsPong(msg)
                        THEN /\ activePongTimer' = clearPongTimer(activePongTimer, k)
                             /\ emitted' = << >>
                        ELSE /\ emitted' = << Event("response", m) >>
                             /\ UNCHANGED activePongTimer
                 ELSE IF msg.topic # ""
                        THEN /\ emitted' = << Event("update", m) >>
                             /\ UNCHANGED activePongTimer
                        ELSE /\ emitted' = << >>
                             /\ UNCHANGED activePongTimer
     /\ sent' = << >>
     /\ failedSends' = << >>
     /\ thrown' = << >>
     /\ connectResult' = "none"
     /\ preState' = connState[k]
     /\ removed' = {}
     /\ UNCHANGED <<closeCalled, closedLive, leakedPong>>
     /\ lastOp' = MsgOp(k, s, m)
     /\ UNCHANGED <<linear, records, connState, topics, ws, socks, activePingTimer,
                    leakedPing, pongSock, reconnectTimers, pendingConnect>>

\* subscribe / unsubscribe take one topic or a list: each single topic, and the
\* list of all of them
TopicArgs == {{t} : t \in Topics} \cup {Topics}

Next ==
  \/ \E T \in TopicArgs : Subscribe(T)
  \/ \E T \in TopicArgs : Unsubscribe(T)
  \/ \E k \in Keys : Close(k)
  \/ ReconnectTimeout
  \/ \E k \in Keys : ConnectOpenTransport(k)
  \/ \E k \in Keys : ConnectThrows(k)
  \/ PingTick
  \/ \E k \in Keys : PongTimeout(k)
  \/ \E s \in 1..Len(socks) : OnWsOpen(s)
  \/ \E s \in 1..Len(socks) : OnWsClose(s)
  \/ \E s \in 1..Len(socks) : OnWsError(s)
  \/ \E s \in 1..Len(socks), m \in 1..Len(Messages) : OnWsMessage(s, m)

Spec == Init /\ [][Next]_vars

TypeOK ==
  /\ linear \in BOOLEAN
  /\ records \subseteq Keys
  /\ \A k \in Keys : connState[k] \in 0..4
  /\ \A k \in Keys : topics[k] \subseteq Topics
  /\ \A k \in Keys : ws[k] \in 0..Len(socks)
  /\ reconnectTimers \in 0..MaxPending
  /\ leakedPing \in 0..MaxPending
  /\ leakedPong \in 0..MaxPending
  /\ closeCalled \subseteq Keys
  /\ closedLive \subseteq Keys
  /\ preState \in 0..4
  /\ removed \subseteq Topics

\* ------------------------------------------------------------ properties
LiveSocksIn(sk, k) == {s \in 1..Len(sk) : sk[s].key = k /\ sk[s].rs # WS_CLOSED}

LiveSocks(k) == LiveSocksIn(socks, k)

FramesOnIn(snt, s) == SelectSeq(snt, LAMBDA f : f.sock = s)

FramesOn(s) == FramesOnIn(sent, s)

NoPendingWork ==
  /\ reconnectTimers = 0
  /\ \A k \in Keys : pendingConnect[k] = 0

\* C1: after a connection attempt that failed before the transport opened,
\* the connect() called by the reconnect timer is not refused by the connect
\* guard, as long as close() has not been called on the key.
C1_RetryNotRefused ==
  (lastOp.name = "reconnectTimeout" /\ lastOp.key \notin closeCalled)
    => connectResult = "started"

\* C2: when the transport of a key in state Connected closes, the record
\* moves to Reconnecting, the key has no ping or pong timer left, exactly one
\* 'reconnect' event is emitted and exactly one reconnect timer is scheduled.
C2_ConnectedCloseReconnects ==
  [][(lastOp'.name = "onWsClose" /\ connState[lastOp'.key] = READY_STATE_CONNECTED)
       => /\ connState'[lastOp'.key] = READY_STATE_RECONNECTING
          /\ ~activePingTimer'[lastOp'.key]
          /\ activePongTimer'[lastOp'.key] = "none"
          /\ leakedPing' = 0
          /\ emitted' = << Event("reconnect", 0) >>
          /\ reconnectTimers' = reconnectTimers + 1]_vars

C2_Witness ==
  /\ lastOp.name = "onWsClose"
  /\ preState = READY_STATE_CONNECTED
  /\ connState[lastOp.key] = READY_STATE_RECONNECTING
  /\ reconnectTimers = 1

\* C3: at most one transport per key has not closed, in every reachable state.
C3_OneLiveSocketPerKey ==
  \A k \in Keys : Cardinality(LiveSocks(k)) <= 1

C3_Witness ==
  /\ Len(socks) >= 2
  /\ socks[1].rs = WS_CLOSED
  /\ socks[2].rs = WS_OPEN
  /\ socks[2].key = socks[1].key

\* C4: connect(key) called while the key is Connecting, or while its stored
\* socket is open, creates no transport and starts no attempt that would
\* create one, and leaves connection state, socket and topics unchanged.
C4_ConnectIdempotent ==
  [][(/\ lastOp'.name = "reconnectTimeout"
      /\ \/ connState[lastOp'.key] = READY_STATE_CONNECTING
         \/ isWsOpen(lastOp'.key))
       => /\ socks' = socks
          /\ pendingConnect' = pendingConnect
          /\ connState' = connState
          /\ ws' = ws
          /\ topics' = topics]_vars

C4_Witness ==
  /\ lastOp.name = "reconnectTimeout"
  /\ preState = READY_STATE_CONNECTING
  /\ connectResult = "refusedConnecting"

\* C5: every time a transport opens, exactly one frame is written to it, a
\* subscribe frame whose args are the store's topic set of the transport's key.
C5_OpenReplaysTopics ==
  lastOp.name = "onWsOpen"
    => FramesOn(lastOp.sock) = << Frame("subscribe", topics[lastOp.key], lastOp.sock) >>

C5_Witness ==
  /\ lastOp.name = "onWsOpen"
  /\ lastOp.sock >= 2
  /\ Cardinality(topics[lastOp.key]) >= 2
  /\ FramesOn(lastOp.sock) # << >>

\* C6: only subscribe and unsubscribe change a key's topic set.
C6_TopicsFrame ==
  [][lastOp'.name \notin {"subscribe", "unsubscribe"} => topics' = topics]_vars

C6_Witness ==
  /\ lastOp.name = "close"
  /\ topics[lastOp.key] # {}
  /\ preState = READY_STATE_RECONNECTING

\* C7: after unsubscribe(t) the topic set of the key t resolves to is without
\* t, and after subscribe(t) it holds t, whatever the connection state.
C7_SubscribeUnsubscribe ==
  /\ lastOp.name = "unsubscribe"
       => \A t \in lastOp.arg : t \notin topics[getWsKeyForTopic(t)]
  /\ lastOp.name = "subscribe"
       => \A t \in lastOp.arg : t \in topics[getWsKeyForTopic(t)]

C7_Witness ==
  /\ lastOp.name = "unsubscribe"
  /\ removed # {}
  /\ \A k \in Keys : connState[k] # READY_STATE_CONNECTED

\* C8: subscribe(t) / unsubscribe(t) writes exactly one frame, on the transport
\* of the key t resolves to, listing that key's whole topic set, when that key
\* is Connected, and writes no frame when that key is not Connected.
C8_FrameIffResolvedKeyConnected ==
  \A t \in Topics :
    (lastOp.name \in {"subscribe", "unsubscribe"} /\ lastOp.arg = {t})
      => IF connState[getWsKeyForTopic(t)] = READY_STATE_CONNECTED
           THEN sent = << Frame(lastOp.name, topics[getWsKeyForTopic(t)],
                                ws[getWsKeyForTopic(t)]) >>
           ELSE sent = << >>

\* C9: on a linear client whose connection has opened, subscribe(t) writes a
\* subscribe frame whose args contain t to an open transport.
C9_LinearSubscribeReachesWire ==
  (/\ linear
   /\ lastOp.name = "subscribe"
   /\ \E s \in 1..Len(socks) : socks[s].rs = WS_OPEN)
    => \A t \in lastOp.arg :
         \E i \in 1..Len(sent) :
           /\ sent[i].op = "subscribe"
           /\ t \in sent[i].args
           /\ socks[sent[i].sock].rs = WS_OPEN

\* C10: a pong timeout on a Connected key with an open transport closes that
\* transport; when that transport's close event arrives (no close() call in
\* between) nothing else is pending and exactly one reconnect timer is
\* scheduled; when that timer fires exactly one connect attempt starts; and
\* the transport that reopens gets the key's topic set unchanged.
C10_PongTimeoutReconnectsOnce ==
  [][/\ (/\ lastOp'.name = "pongTimeout"
         /\ connState[lastOp'.key] = READY_STATE_CONNECTED
         /\ isWsOpen(lastOp'.key))
          => /\ socks'[lastOp'.sock].rs = WS_CLOSING
             /\ socks'[lastOp'.sock].forced
             /\ Cardinality(LiveSocks(lastOp'.key)) = 1
     /\ (/\ lastOp'.name = "onWsClose"
         /\ socks[lastOp'.sock].forced
         /\ connState[lastOp'.key] = READY_STATE_CONNECTED)
          => /\ NoPendingWork
             /\ reconnectTimers' = 1
             /\ connState'[lastOp'.key] = READY_STATE_RECONNECTING
             /\ LiveSocksIn(socks', lastOp'.key) = {}
     /\ (/\ lastOp'.name = "reconnectTimeout"
         /\ connState[lastOp'.key] = READY_STATE_RECONNECTING)
          => /\ connectResult' = "started"
             /\ reconnectTimers' = 0
             /\ pendingConnect'[lastOp'.key] = 1
     /\ (/\ lastOp'.name = "onWsOpen"
         /\ lastOp'.sock > 1)
          => /\ topics' = topics
             /\ FramesOnIn(sent', lastOp'.sock)
                  = << Frame("subscribe", topics[lastOp'.key], lastOp'.sock) >>
    ]_vars

C10_Witness ==
  /\ lastOp.name = "onWsOpen"
  /\ lastOp.sock = 2
  /\ socks[1].forced
  /\ socks[1].rs = WS_CLOSED
  /\ closeCalled = {}
  /\ preState = READY_STATE_RECONNECTING
  /\ topics[lastOp.key] # {}

\* C11: a frame with a success field that is a heartbeat reply (a successful
\* ping echo with ret_msg pong, or a bare ping/pong marker) leaves no pong
\* timeout pending on the key and emits no event.
C11_HeartbeatReplyCancelsTimeout ==
  (/\ lastOp.name = "onWsMessage"
   /\ Messages[lastOp.msg].success # "absent"
   /\ isWsPongUtil(Messages[lastOp.msg]))
    => /\ emitted = << >>
       /\ activePongTimer[lastOp.key] # "pending"

\* C12: a frame with a success field that is not a heartbeat reply is emitted
\* exactly once, as a 'response' event carrying that frame, and the pong
\* timeout, the connection state and everything else of the record stay.
C12_ResponseForwarded ==
  [][(/\ lastOp'.name = "onWsMessage"
      /\ Messages[lastOp'.msg].success # "absent"
      /\ ~isWsPongUtil(Messages[lastOp'.msg]))
       => /\ emitted' = << Event("response", lastOp'.msg) >>
          /\ activePongTimer' = activePongTimer
          /\ connState' = connState
          /\ activePingTimer' = activePingTimer
          /\ socks' = socks
          /\ topics' = topics]_vars

C12_Witness ==
  /\ lastOp.name = "onWsMessage"
  /\ Messages[lastOp.msg].reqOp = "ping"
  /\ Messages[lastOp.msg].success = "false"
  /\ emitted = << Event("response", lastOp.msg) >>
  /\ activePongTimer[lastOp.key] = "pending"

EventNames == {emitted[i].name : i \in 1..Len(emitted)}

\* C13: close(key) on a Connected or Connecting key leaves the key Closing
\* with no ping or pong timer; from there the key only goes to Initial, with
\* exactly one 'close' event, and no 'reconnect' event is emitted for it.
C13_CloseReturnsToInitial ==
  [][/\ (lastOp'.name = "close"
           /\ connState[lastOp'.key] \in {READY_STATE_CONNECTED, READY_STATE_CONNECTING})
          => /\ connState'[lastOp'.key] = READY_STATE_CLOSING
             /\ ~activePingTimer'[lastOp'.key]
             /\ activePongTimer'[lastOp'.key] # "pending"
     /\ \A k \in closedLive :
          /\ connState'[k] \in {READY_STATE_CLOSING, READY_STATE_INITIAL}
          /\ lastOp'.key = k => Event("reconnect", 0) \notin {emitted'[i] : i \in 1..Len(emitted')}
          /\ connState'[k] = READY_STATE_INITIAL => emitted' = << Event("close", 0) >>
    ]_vars

\* C14: once close(key) has been called, no transport is created for the key
\* and the key is never Connected again.
C14_NoTransportAfterClose ==
  /\ lastOp.name = "connectOpenTransport" => lastOp.key \notin closeCalled
  /\ \A k \in closeCalled : connState[k] # READY_STATE_CONNECTED

\* C15: every transition of a key into Connected is made by a transport open
\* event and emits exactly one event: 'reconnected' when the key was
\* Reconnecting, 'open' otherwise.
C15_OpenEmitsLifecycleEvent ==
  (connState[lastOp.key] = READY_STATE_CONNECTED /\ preState # READY_STATE_CONNECTED)
    => /\ lastOp.name = "onWsOpen"
       /\ emitted = IF preState = READY_STATE_RECONNECTING
                      THEN << Event("reconnected", 0) >>
                      ELSE << Event("open", 0) >>

\* C16: a send of a ping, subscribe or unsubscribe frame that fails is caught
\* inside the client: nothing is thrown to the caller or out of the timer
\* callback, and the connection states, the stored sockets, the transports
\* and the topic sets are what the operation makes them without the failure.
C16_SendFailureCaught ==
  [][(failedSends' # << >> /\ lastOp'.name \in {"ping", "subscribe", "unsubscribe"})
       => /\ thrown' = << >>
          /\ connState' = connState
          /\ ws' = ws
          /\ socks' = socks
          /\ topics' = CASE lastOp'.name = "subscribe" -> subscribeTopics(topics, lastOp'.arg)
                         [] lastOp'.name = "unsubscribe" -> unsubscribeTopics(topics, lastOp'.arg)
                         [] OTHER -> topics]_vars

C16_Witness ==
  /\ lastOp.name \in {"subscribe", "unsubscribe"}
  /\ failedSends # << >>
  /\ thrown = << >>
  /\ connState[defaultWsKey] = READY_STATE_CONNECTED

\* C17 (as stated): an 'error' event is emitted only by a step that takes the
\* key out of Connected, and not on the explicit-close path.
C17_ErrorOnlyOnLeavingConnected ==
  "error" \in EventNames
    => /\ preState = READY_STATE_CONNECTED
       /\ connState[lastOp.key] # READY_STATE_CONNECTED
       /\ lastOp.name # "close"

\* C17 (amended): an 'error' event is emitted exactly by the transport error
\* handler of a key that is Connected, once, and the handler leaves the
\* connection state as it found it; a transport error in any other state
\* emits nothing.
C17_ErrorIffConnected ==
  /\ "error" \in EventNames
       <=> (lastOp.name = "onWsError" /\ preState = READY_STATE_CONNECTED)
  /\ lastOp.name = "onWsError"
       => /\ connState[lastOp.key] = preState
          /\ emitted \in {<< >>, << Event("error", 0) >>}

C17_Witness ==
  /\ lastOp.name = "onWsError"
  /\ emitted = << Event("error", 0) >>
  /\ connState[lastOp.key] = READY_STATE_CONNECTED
  /\ socks[lastOp.sock].rs = WS_OPEN

\* the transitions of the specified state machine, as <<from, to>>
SpecTransitions ==
  { <<READY_STATE_INITIAL, READY_STATE_CONNECTING>>,
    <<READY_STATE_RECONNECTING, READY_STATE_CONNECTING>>,
    <<READY_STATE_CONNECTING, READY_STATE_CONNECTED>>,
    <<READY_STATE_CONNECTED, READY_STATE_RECONNECTING>>,
    <<READY_STATE_CONNECTED, READY_STATE_CLOSING>>,
    <<READY_STATE_CONNECTING, READY_STATE_CLOSING>>,
    <<READY_STATE_CLOSING, READY_STATE_INITIAL>> }

\* the transitions the client makes, as <<from, to, operation>>
CodeTransitions ==
  { <<READY_STATE_INITIAL, READY_STATE_CONNECTING, "reconnectTimeout">>,
    <<READY_STATE_CONNECTING, READY_STATE_CONNECTED, "onWsOpen">>,
    <<READY_STATE_RECONNECTING, READY_STATE_CONNECTED, "onWsOpen">>,
    <<READY_STATE_CLOSING, READY_STATE_CONNECTED, "onWsOpen">>,
    <<READY_STATE_CONNECTED, READY_STATE_RECONNECTING, "onWsClose">>,
    <<READY_STATE_CLOSING, READY_STATE_RECONNECTING, "connectThrows">>,
    <<READY_STATE_INITIAL, READY_STATE_CLOSING, "close">>,
    <<READY_STATE_CONNECTING, READY_STATE_CLOSING, "close">>,
    <<READY_STATE_CONNECTED, READY_STATE_CLOSING, "close">>,
    <<READY_STATE_RECONNECTING, READY_STATE_CLOSING, "close">>,
    <<READY_STATE_CLOSING, READY_STATE_INITIAL, "onWsClose">> }

\* C18 (as stated): every change of a key's state is a transition of the
\* specified state machine; in particular never Reconnecting -> Connected or
\* Closing -> Connected.
C18_OnlySpecTransitions ==
  [][\A k \in Keys :
       connState'[k] # connState[k] => <<connState[k], connState'[k]>> \in SpecTransitions]_vars

\* C18 (amended): every change of a key's state is made on the key of the
\* running operation and is one of: Initial -> Connecting (retried connect),
\* Connecting / Reconnecting / Closing -> Connected (transport open),
\* Connected -> Reconnecting (transport close), Closing -> Reconnecting
\* (failed connect), any state but Closing -> Closing (close()), and
\* Closing -> Initial (transport close). A key never goes from Reconnecting
\* to Connecting.
C18_OnlyCodeTransitions ==
  [][\A k \in Keys :
       connState'[k] # connState[k]
         => /\ k = lastOp'.key
            /\ <<connState[k], connState'[k], lastOp'.name>> \in CodeTransitions]_vars

C18_Witness ==
  /\ lastOp.name = "onWsOpen"
  /\ preState = READY_STATE_RECONNECTING
  /\ connState[lastOp.key] = READY_STATE_CONNECTED
  /\ emitted = << Event("reconnected", 0) >>

\* C19 (as stated): while a key is Connected exactly one of its ping timer
\* and its pong timeout is pending, never both and never neither.
C19_ExactlyOneTimer ==
  \A k \in Keys :
    connState[k] = READY_STATE_CONNECTED
      => (activePingTimer[k] /\ activePongTimer[k] # "pending")
           \/ (~activePingTimer[k] /\ activePongTimer[k] = "pending")

\* C19 (amended): while a key is Connected its ping interval is pending, and
\* at most one pong timeout is pending beside it; a pong timeout is pending
\* only on a Connected key, so from a ping until the reply or the timeout
\* both timers are pending.
C19_IntervalAndAtMostOneTimeout ==
  /\ \A k \in Keys : connState[k] = READY_STATE_CONNECTED => activePingTimer[k]
  /\ \A k \in Keys :
       activePongTimer[k] = "pending"
         => connState[k] = READY_STATE_CONNECTED /\ activePingTimer[k]
  /\ leakedPong = 0
  /\ lastOp.name = "ping" /\ preState = READY_STATE_CONNECTED
       => activePongTimer[lastOp.key] = "pending"

C19_Witness ==
  /\ lastOp.name = "ping"
  /\ connState[lastOp.key] = READY_STATE_CONNECTED
  /\ activePingTimer[lastOp.key]
  /\ activePongTimer[lastOp.key] = "pending"
  /\ sent # << >>

\* C20: a key that is Initial, Closing or Reconnecting has no pending ping or
\* pong timer; no ping interval and no pong timeout exists besides the one
\* the key's record holds; and a pong timeout that fires closes the
\* transport its ping was sent on.
C20_NoStaleTimer ==
  /\ \A k \in Keys :
       connState[k] \in {READY_STATE_INITIAL, READY_STATE_CLOSING, READY_STATE_RECONNECTING}
         => ~activePingTimer[k] /\ activePongTimer[k] # "pending"
  /\ leakedPing = 0 /\ leakedPong = 0
  /\ lastOp.name = "pongTimeout"
       => /\ lastOp.sock = pongSock[lastOp.key]
          /\ lastOp.sock # 0
          /\ socks[lastOp.sock].rs \in {WS_CLOSING, WS_CLOSED}
          /\ \A s \in 1..Len(socks) : s # lastOp.sock => ~socks[s].forced \/ socks[s].rs = WS_CLOSED

C20_Witness ==
  /\ lastOp.name = "pongTimeout"
  /\ lastOp.sock = 2
  /\ socks[1].rs = WS_CLOSED
  /\ socks[2].forced
  /\ pongSock[lastOp.key] = 2

\* C21: a delivered frame without a success field emits exactly one 'update'
\* event carrying the frame when it has a topic, and otherwise (neither field,
\* or content that is not a JSON object) is dropped: no event, no exception
\* out of the handler, and connection state, timers, transports and topics
\* unchanged; a frame with both a success and a topic field emits 'response'
\* and no 'update'.
C21_UpdateOrDropped ==
  [][lastOp'.name = "onWsMessage"
       => LET msg == Messages[lastOp'.msg] IN
          /\ msg.success = "absent"
               => /\ uncaught' = "none"
                  /\ emitted' = IF msg.parse = "object" /\ msg.topic # ""
                                  THEN << Event("update", lastOp'.msg) >>
                                  ELSE << >>
                  /\ connState' = connState
                  /\ activePingTimer' = activePingTimer
                  /\ activePongTimer' = activePongTimer
                  /\ socks' = socks
                  /\ topics' = topics
          /\ (msg.success # "absent" /\ msg.topic # "")
               => emitted' = << Event("response", lastOp'.msg) >>]_vars

\* C22: while a key is Connected, the topics its transport has been asked for
\* (every subscribe frame written to it added, every unsubscribe frame taken
\* away) are the store's topic set of the key after each subscribe or
\* unsubscribe call. Stated per call: the frames written when the transport
\* opens ask for the store's set, and a call that starts with the transport
\* asked for the store's set ends so; and the unsubscribe frame of an
\* unsubscribe(t) that takes t out of the store has t in its args and no
\* topic that is still in the store.
C22_RequestedTopicsAreStore ==
  [][/\ lastOp'.name = "onWsOpen"
          => ApplyFrames([k \in Keys |-> {}], sent', socks')[lastOp'.key]
               = topics'[lastOp'.key]
     /\ lastOp'.name \in {"subscribe", "unsubscribe"}
          => \A k \in Keys :
               connState[k] = READY_STATE_CONNECTED
                 => ApplyFrames(topics, sent', socks)[k] = topics'[k]
     /\ lastOp'.name = "unsubscribe"
          => \A t \in removed' :
               connState[getWsKeyForTopic(t)] = READY_STATE_CONNECTED
                 => \E i \in 1..Len(sent') :
                      /\ sent'[i].op = "unsubscribe"
                      /\ socks[sent'[i].sock].key = getWsKeyForTopic(t)
                      /\ t \in sent'[i].args
                      /\ sent'[i].args \cap topics'[getWsKeyForTopic(t)] = {}
    ]_vars

====
